---- MODULE Spec2Model ----
(***************************************************************************)
(* qpdfview: the tiled page-rendering pipeline.                            *)
(*   RenderTask (rendertask.cpp)  - one rasterization on a pool thread,    *)
(*                                  cooperative two-level cancellation     *)
(*   TileItem   (tileitem.cpp)    - one tile of a page, its pixmaps, the   *)
(*                                  process-wide QCache s_cache            *)
(* The coordinating (GUI) thread runs the TileItem operations and the      *)
(* slots of the queued signals; each RenderTask run is a worker thread     *)
(* whose steps interleave with them.                                       *)
(***************************************************************************)
EXTENDS Integers, Sequences, FiniteSets, TLC

VARIABLES
    renderParam,   \* PageItem::m_renderParam of the tiles' parent page
    s_cache,       \* TileItem::s_cache: [nodes (most recent first), mx, total]
    tile,          \* per tile: alive, m_rect, m_pixmapError, m_pixmap, m_obsoletePixmap
    task,          \* per tile's RenderTask: m_isRunning, m_wasCanceled, m_renderParam, m_rect, m_prefetch
    runs,          \* per run (one RenderTask::start): the pool thread's position in run(),
                   \* its image, what it emitted and which cancel calls hit it
    queue,         \* queued signal deliveries to the coordinating thread, oldest first
    timer,         \* per tile: QTimer::singleShot(0, this, SLOT(deleteAfterRender())) is armed
    mainpc,        \* coordinating thread: <<"loop", 0>>, or inside ~TileItem: <<"wait"|"sleep", tile>>
    nruns,         \* number of RenderTask::start calls so far
    recent,        \* the keys resident in s_cache, by their last insert or lookup hit, latest first
    out            \* what the last step returned, drew or did with an image

vars == <<renderParam, s_cache, tile, task, runs, queue, timer, mainpc, nruns, recent, out>>

----------------------------------------------------------------------------
(* Bounds of the model *)

\* RenderTask::start is called at most MaxRuns times in a behaviour.
MaxRuns == 2

Tiles == {1}
Runs == 1..MaxRuns

----------------------------------------------------------------------------
(* Values *)

NotCanceled == 0
CanceledNormally == 1
CanceledForcibly == 2

\* scaleFactor is a qreal; it is held here in units of 10^-7.
ScaleUnit == 10 * 1000000

\* RenderParam values the page is given
ParamA == [resolutionX |-> 72, resolutionY |-> 72, devicePixelRatio |-> 1,
           scaleFactor |-> ScaleUnit, rotation |-> 0, invertColors |-> FALSE]
ParamB == [resolutionX |-> 72, resolutionY |-> 72, devicePixelRatio |-> 1,
           scaleFactor |-> 2 * ScaleUnit, rotation |-> 0, invertColors |-> FALSE]

\* Tile rectangles (QRect: x, y, width, height)
RectA == [x |-> 0, y |-> 0, w |-> 1024, h |-> 1024]
RectB == [x |-> 1024, y |-> 0, w |-> 1024, h |-> 1024]
RectBig == [x |-> 0, y |-> 0, w |-> 8192, h |-> 8192]
NullRect == [x |-> 0, y |-> 0, w |-> 0, h |-> 0]

\* the rectangles of the page's other tiles
OtherRects == {RectB, [x |-> 0, y |-> 1024, w |-> 1024, h |-> 1024]}

\* The configurations the page takes: its render parameters and the tile's rectangle
Configs == {[param |-> ParamA, rect |-> RectA], [param |-> ParamB, rect |-> RectA],
            [param |-> ParamA, rect |-> RectB]}

\* ... and the configurations a tile is constructed with: also an untiled page
\* at a high zoom
NewConfigs == Configs \cup {[param |-> ParamB, rect |-> RectBig]}

\* The configurations of a page whose parameters change one field at a time:
\* the resolution of either axis, the device pixel ratio (another screen), the
\* scale factor (by 10^-7 and by a factor of two), the rotation, the colors,
\* the tile's rectangle
KeyConfigs ==
    {[param |-> ParamA, rect |-> RectA], [param |-> ParamA, rect |-> RectB],
     [param |-> ParamB, rect |-> RectA]}
    \cup {[param |-> [ParamA EXCEPT !.resolutionX = 96], rect |-> RectA],
          [param |-> [ParamA EXCEPT !.resolutionY = 96], rect |-> RectA],
          [param |-> [ParamA EXCEPT !.devicePixelRatio = 2], rect |-> RectA],
          [param |-> [ParamA EXCEPT !.scaleFactor = ScaleUnit + 1], rect |-> RectA],
          [param |-> [ParamA EXCEPT !.rotation = 1], rect |-> RectA],
          [param |-> [ParamA EXCEPT !.invertColors = TRUE], rect |-> RectA]}

\* Cache sizes the settings offer (bytes)
CacheSizes == {10 * 1024 * 1024, 2 * 1024 * 1024}

\* A QImage/QPixmap: its dimensions, and for which request it was rasterized.
NullPixmap == [w |-> 0, h |-> 0, depth |-> 0, param |-> ParamA, rect |-> NullRect]

isNull(p) == p.w = 0 \/ p.h = 0

----------------------------------------------------------------------------
(* int arithmetic of the cost expressions: 32 bits, two's complement *)

Int32Max == 1073741823 + 1073741824
Int32Min == (-Int32Max) - 1
Two30 == 1073741823 + 1

\* the low 31 bits of x
Low31(x) == IF x >= 0 THEN x ELSE (x + Int32Max) + 1

\* 2 * x in int
Dbl32(x) ==
    LET u == Low31(x)
    IN IF u < Two30 THEN 2 * u ELSE (2 * (u - Two30)) + Int32Min

\* a + b in int
Add32(a, b) ==
    IF a >= 0 /\ b >= 0 /\ a > Int32Max - b THEN (a + Int32Min) + (b + Int32Min)
    ELSE IF a < 0 /\ b < 0 /\ a < Int32Min - b THEN ((a + Int32Max) + 1) + ((b + Int32Max) + 1)
    ELSE a + b

\* a * b in int, for b >= 0
RECURSIVE Mul32(_, _)
Mul32(a, b) ==
    IF b = 0 THEN 0
    ELSE IF a >= 0 /\ a <= Int32Max \div b THEN a * b
    ELSE Add32(Dbl32(Mul32(a, b \div 2)), IF b % 2 = 1 THEN a ELSE 0)

\* a / b in int (truncates toward zero), for b > 0
Div32(a, b) == IF a >= 0 \/ a % b = 0 THEN a \div b ELSE (a \div b) + 1

\* image.width() * image.height() * image.depth() / 8
PixmapCost(p) == Div32(Mul32(Mul32(p.w, p.h), p.depth), 8)

----------------------------------------------------------------------------
(* QPixmap::fromImage: the pixmap has the image's size and the depth of the
   platform's pixmaps, 32 bits. *)
fromImage(image) == [image EXCEPT !.depth = IF isNull(image) THEN 0 ELSE 32]

(* Model::Page::render: an image of the size of the requested rectangle, 32
   bits deep, or a null image when the backend fails. *)
render(param, rect, ok) ==
    IF ok THEN [w |-> rect.w, h |-> rect.h, depth |-> 32, param |-> param, rect |-> rect]
    ELSE NullPixmap

----------------------------------------------------------------------------
(* TileItem::pixmapKey *)

\* "%f" of a qreal: six decimals, so the 10^-7 digit is rounded away
FormatF(scale) == (scale + 5) \div 10

\* qRound of an int coordinate of a QRect
qRound(v) == v

Page == "page"

\* keystr: the fields "%d,%d,%f,%d,%d,%d,%d,%d,%d" prints
keystr(param, rect) ==
    <<param.resolutionX, param.resolutionY, FormatF(param.scaleFactor),
      param.rotation, param.invertColors,
      qRound(rect.x), qRound(rect.y), qRound(rect.w), qRound(rect.h)>>

\* qMakePair(pageitem, keystr)
pixmapKey(param, rect) == <<Page, keystr(param, rect)>>

----------------------------------------------------------------------------
(* QCache< QPair< PageItem*, QString >, QPixmap >: nodes are kept most recently
   used first; total is the sum of the nodes' costs. *)

EmptyCache(mx) == [nodes |-> <<>>, mx |-> mx, total |-> 0]

CacheIndex(c, key) ==
    IF \E i \in 1..Len(c.nodes) : c.nodes[i].key = key
    THEN CHOOSE i \in 1..Len(c.nodes) : c.nodes[i].key = key
    ELSE 0

RemoveAt(seq, i) == SubSeq(seq, 1, i - 1) \o SubSeq(seq, i + 1, Len(seq))

\* QCache::contains
CacheContains(c, key) == CacheIndex(c, key) # 0

\* QCache::object returns the value ...
CacheObject(c, key) == c.nodes[CacheIndex(c, key)].t

\* a lookup that leaves the node where it is
CacheKeepPlace(c, key) == c

\* ... and relinks the node to the front
CacheRelink(c, key) ==
    LET i == CacheIndex(c, key)
    IN IF i = 0 THEN c
       ELSE [c EXCEPT !.nodes = <<c.nodes[i]>> \o RemoveAt(c.nodes, i)]

\* QCache::trim(m): unlink from the least recently used end while total > m
RECURSIVE CacheTrim(_, _)
CacheTrim(c, m) ==
    IF c.nodes # <<>> /\ c.total > m
    THEN CacheTrim([c EXCEPT !.nodes = SubSeq(c.nodes, 1, Len(c.nodes) - 1),
                             !.total = c.total - c.nodes[Len(c.nodes)].c], m)
    ELSE c

\* QCache::setMaxCost
CacheSetMaxCost(c, m) == CacheTrim([c EXCEPT !.mx = m], m)

\* QCache::remove
CacheRemove(c, key) ==
    LET i == CacheIndex(c, key)
    IN IF i = 0 THEN c
       ELSE [c EXCEPT !.nodes = RemoveAt(c.nodes, i), !.total = c.total - c.nodes[i].c]

\* QCache::insert
CacheInsert(c, key, object, cost) ==
    LET c1 == CacheRemove(c, key)
    IN IF cost > c1.mx THEN c1
       ELSE LET c2 == CacheTrim(c1, c1.mx - cost)
            IN [c2 EXCEPT !.nodes = <<[key |-> key, t |-> object, c |-> cost]>> \o c2.nodes,
                          !.total = c2.total + cost]

----------------------------------------------------------------------------
(* RenderTask: the cancellation flag *)

setCancellation(tk, force) ==
    [tk EXCEPT !.m_wasCanceled = IF force THEN CanceledForcibly ELSE CanceledNormally]

resetCancellation(tk) == [tk EXCEPT !.m_wasCanceled = NotCanceled]

\* a checkpoint that any cancellation trips, prefetch or not
testCancellationAnyKind(canceled, prefetch) == canceled # NotCanceled

\* a checkpoint that only a forced cancellation trips
testCancellationForcedOnly(canceled, prefetch) == canceled = CanceledForcibly

testCancellation(canceled, prefetch) ==
    IF prefetch THEN canceled = CanceledForcibly ELSE canceled # NotCanceled

wasCanceled(tk) == tk.m_wasCanceled # NotCanceled

wasCanceledForcibly(tk) == tk.m_wasCanceled = CanceledForcibly

\* isRunning() that reports a task told to cancel as idle
isRunningUnlessCanceled(tk) == tk.m_isRunning /\ tk.m_wasCanceled = NotCanceled

isRunning(tk) == tk.m_isRunning

----------------------------------------------------------------------------
(* Bookkeeping of the runs *)

NoMarks == [soft |-> FALSE, force |-> "none"]

NoRun == [tile |-> 0, pc |-> "none", emitted |-> <<>>, marks |-> NoMarks, freed |-> FALSE]

DoneRun == [NoRun EXCEPT !.pc = "done"]

\* the run's thread is between start() and the clearing of m_isRunning
InFlight(r) == runs[r].pc \in {"cp1", "render", "cp3", "clear"}

ImagePendingIn(q, r) == \E i \in 1..Len(q) : q[i].sig = "imageReady" /\ q[i].run = r


\* a cancel(force) call on tile t's task, noted on the runs it hits: on the run
\* in flight (force: "run"), and on finished runs whose imageReady is still
\* queued (force: "pend", unless it was hit in flight)
NoteCancel(t, force) ==
    [r \in Runs |->
        IF runs[r].tile = t /\ ~runs[r].freed /\ InFlight(r)
        THEN (IF force THEN [runs[r] EXCEPT !.marks.force = "run"]
                       ELSE [runs[r] EXCEPT !.marks.soft = TRUE])
        ELSE IF runs[r].tile = t /\ ~runs[r].freed /\ ImagePendingIn(queue, r)
        THEN (IF force THEN [runs[r] EXCEPT !.marks.force = IF @ = "run" THEN "run" ELSE "pend"]
                       ELSE [runs[r] EXCEPT !.marks.soft = TRUE])
        ELSE runs[r]]

\* a run that has left finish() and has no imageReady queued is history
Tidy(rs, q) ==
    [r \in Runs |-> IF rs[r].pc = "done" /\ ~ImagePendingIn(q, r) THEN DoneRun ELSE rs[r]]

NoEvent == [sig |-> "none", tile |-> 0, run |-> 0, param |-> ParamA, rect |-> NullRect,
            prefetch |-> FALSE, image |-> NullPixmap]

NoOut == [op |-> "none", ret |-> -1, drew |-> "none", image |-> "none", prefetch |-> FALSE,
          stale |-> FALSE, inserted |-> FALSE, stored |-> FALSE, marks |-> NoMarks]

Out(op) == [NoOut EXCEPT !.op = op]

Idle == mainpc = <<"loop", 0>>

\* Recency bookkeeping, kept apart from the cache's own list: a key that is
\* inserted or hit by a lookup becomes the latest; keys no longer resident drop out.
Without(seq, k) ==
    IF \E i \in 1..Len(seq) : seq[i] = k
    THEN RemoveAt(seq, CHOOSE i \in 1..Len(seq) : seq[i] = k)
    ELSE seq

Touch(seq, k) == <<k>> \o Without(seq, k)

Resident(c) == {c.nodes[i].key : i \in 1..Len(c.nodes)}

RECURSIVE KeepOnly(_, _)
KeepOnly(seq, S) ==
    IF seq = <<>> THEN <<>>
    ELSE (IF Head(seq) \in S THEN <<Head(seq)>> ELSE <<>>) \o KeepOnly(Tail(seq), S)

Restrict(seq, c) == KeepOnly(seq, Resident(c))

----------------------------------------------------------------------------
(* Initial state: one page, its tile constructed and given its rectangle *)

NewTile(rect) == [alive |-> TRUE, m_rect |-> rect, m_pixmapError |-> FALSE,
                  m_pixmap |-> NullPixmap, m_obsoletePixmap |-> NullPixmap]

NewTask == [m_isRunning |-> FALSE, m_wasCanceled |-> NotCanceled,
            m_renderParam |-> ParamA, m_rect |-> NullRect, m_prefetch |-> FALSE]

Init ==
    /\ renderParam = ParamA
    /\ s_cache = EmptyCache(10 * 1024 * 1024)
    /\ tile = [t \in Tiles |-> NewTile(RectA)]
    /\ task = [t \in Tiles |-> NewTask]
    /\ runs = [r \in Runs |-> NoRun]
    /\ queue = <<>>
    /\ timer = [t \in Tiles |-> FALSE]
    /\ mainpc = <<"loop", 0>>
    /\ nruns = 0
    /\ recent = <<>>
    /\ out = NoOut

----------------------------------------------------------------------------
(* TileItem::startRender and RenderTask::start *)

Key(t) == pixmapKey(renderParam, tile[t].m_rect)

\* the condition under which startRender returns 0
\* startRender that starts a run on a tile whose last render failed
startRenderIgnoresError(t, prefetch) ==
    \/ isRunning(task[t])
    \/ (prefetch /\ CacheContains(s_cache, Key(t)))

\* startRender that consults the cache for on-demand requests too
startRenderConsultsCache(t, prefetch) ==
    \/ tile[t].m_pixmapError
    \/ isRunning(task[t])
    \/ CacheContains(s_cache, Key(t))

\* startRender that does not ask the task whether it is running
startRenderIgnoresRunning(t, prefetch) ==
    \/ tile[t].m_pixmapError
    \/ (prefetch /\ CacheContains(s_cache, Key(t)))

startRenderRejects(t, prefetch) ==
    \/ tile[t].m_pixmapError
    \/ isRunning(task[t])
    \/ (prefetch /\ CacheContains(s_cache, Key(t)))

\* start() that leaves it to run() to set m_isRunning
startLeavesFlag(tk, param, rect, prefetch) ==
    resetCancellation([tk EXCEPT !.m_renderParam = param, !.m_rect = rect,
                                 !.m_prefetch = prefetch])

\* start() that leaves the cancellation flag as it finds it
startKeepsCancellation(tk, param, rect, prefetch) ==
    [tk EXCEPT !.m_renderParam = param, !.m_rect = rect,
               !.m_prefetch = prefetch, !.m_isRunning = TRUE]

\* RenderTask::start: the task after the call
start(tk, param, rect, prefetch) ==
    resetCancellation([tk EXCEPT !.m_renderParam = param, !.m_rect = rect,
                                 !.m_prefetch = prefetch, !.m_isRunning = TRUE])

\* startRender's effect on the task and the runs, and what it returns
DoStartRender(t, prefetch, o) ==
    IF startRenderRejects(t, prefetch)
    THEN /\ UNCHANGED <<task, runs, nruns>>
         /\ out' = [o EXCEPT !.ret = 0]
    ELSE /\ nruns < MaxRuns
         /\ task' = [task EXCEPT ![t] = start(@, renderParam, tile[t].m_rect, prefetch)]
         /\ runs' = [runs EXCEPT ![nruns + 1] = [NoRun EXCEPT !.tile = t, !.pc = "cp1"]]
         /\ nruns' = nruns + 1
         /\ out' = [o EXCEPT !.ret = 1]

StartRender(t, prefetch) ==
    /\ Idle /\ tile[t].alive
    /\ DoStartRender(t, prefetch, [Out("startRender") EXCEPT !.prefetch = prefetch])
    /\ UNCHANGED <<renderParam, s_cache, tile, queue, timer, mainpc, recent>>

----------------------------------------------------------------------------
(* TileItem::paint with TileItem::takePixmap *)

\* paint that draws what the cache holds under the key after takePixmap
DrewFromCache(pixmap, t) ==
    IF ~isNull(pixmap) /\ CacheContains(s_cache', Key(t)) THEN "pixmap"
    ELSE IF ~isNull(tile[t].m_obsoletePixmap) THEN "obsolete"
    ELSE IF ~tile[t].m_pixmapError THEN "progress"
    ELSE "error"

\* paint that prefers the obsolete pixmap
DrewObsoleteFirst(pixmap, t) ==
    IF ~isNull(tile[t].m_obsoletePixmap) THEN "obsolete"
    ELSE IF ~isNull(pixmap) THEN "pixmap"
    ELSE IF ~tile[t].m_pixmapError THEN "progress"
    ELSE "error"

Drew(pixmap, t) ==
    IF ~isNull(pixmap) THEN "pixmap"
    ELSE IF ~isNull(tile[t].m_obsoletePixmap) THEN "obsolete"
    ELSE IF ~tile[t].m_pixmapError THEN "progress"
    ELSE "error"

Paint(t) ==
    /\ Idle /\ tile[t].alive
    /\ IF CacheContains(s_cache, Key(t))
       THEN /\ s_cache' = CacheRelink(s_cache, Key(t))
            /\ recent' = Touch(recent, Key(t))
            /\ out' = [Out("paint") EXCEPT !.drew = Drew(CacheObject(s_cache, Key(t)), t)]
            /\ UNCHANGED <<tile, task, runs, nruns>>
       ELSE IF ~isNull(tile[t].m_pixmap)
       THEN /\ s_cache' = CacheInsert(s_cache, Key(t), tile[t].m_pixmap,
                                      PixmapCost(tile[t].m_pixmap))
            /\ recent' = Restrict(Touch(recent, Key(t)), s_cache')
            /\ tile' = [tile EXCEPT ![t].m_pixmap = NullPixmap]
            /\ out' = [Out("paint") EXCEPT !.drew = Drew(tile[t].m_pixmap, t), !.inserted = TRUE]
            /\ UNCHANGED <<task, runs, nruns>>
       ELSE /\ DoStartRender(t, FALSE, [Out("paint") EXCEPT !.drew = Drew(NullPixmap, t)])
            /\ UNCHANGED <<s_cache, tile, recent>>
    /\ UNCHANGED <<renderParam, queue, timer, mainpc>>

\* Another tile of the page is painted while it holds a fresh pixmap or while
\* its pixmap is cached: its takePixmap inserts into, or hits, the shared cache.
OtherTilePaint(rect) ==
    /\ Idle
    /\ LET key == pixmapKey(renderParam, rect)
           pixmap == fromImage(render(renderParam, rect, TRUE))
       IN /\ s_cache' = IF CacheContains(s_cache, key) THEN CacheRelink(s_cache, key)
                        ELSE CacheInsert(s_cache, key, pixmap, PixmapCost(pixmap))
          /\ recent' = Restrict(Touch(recent, key), s_cache')
    /\ out' = Out("otherTile")
    /\ UNCHANGED <<renderParam, tile, task, runs, queue, timer, mainpc, nruns>>

----------------------------------------------------------------------------
(* TileItem::refresh, and the page operations that call it.  keep is the
   argument keepObsoletePixmaps, setting the value of the setting of that name
   when refresh reads it. *)

\* refresh that empties the obsolete pixmap when the cache has nothing to take
refreshForgets(tl, c, key, keep, setting) ==
    [tl EXCEPT !.m_obsoletePixmap =
                   IF keep /\ setting /\ CacheContains(c, key)
                   THEN CacheObject(c, key)
                   ELSE NullPixmap,
               !.m_pixmapError = FALSE,
               !.m_pixmap = NullPixmap]

\* the tile after refresh
refresh(tl, c, key, keep, setting) ==
    [tl EXCEPT !.m_obsoletePixmap =
                   IF keep /\ setting
                   THEN (IF CacheContains(c, key) THEN CacheObject(c, key) ELSE @)
                   ELSE NullPixmap,
               !.m_pixmapError = FALSE,
               !.m_pixmap = NullPixmap]

\* the cache after refresh: QCache::object relinks the node
refreshCache(c, key, keep, setting) ==
    IF keep /\ setting THEN CacheRelink(c, key) ELSE c

Refresh(t, keep, setting) ==
    /\ Idle /\ tile[t].alive
    /\ tile' = [tile EXCEPT ![t] = refresh(@, s_cache, Key(t), keep, setting)]
    /\ s_cache' = refreshCache(s_cache, Key(t), keep, setting)
    /\ recent' = IF keep /\ setting /\ CacheContains(s_cache, Key(t))
                 THEN Touch(recent, Key(t)) ELSE recent
    /\ task' = [task EXCEPT ![t] = setCancellation(@, TRUE)]
    /\ runs' = NoteCancel(t, TRUE)
    /\ out' = Out("refresh")
    /\ UNCHANGED <<renderParam, queue, timer, mainpc, nruns>>

\* The page takes another configuration (new render parameters, a new rectangle
\* for the tile, or both) and refreshes the tile.
Reconfigure(t, cfg, keep, setting) ==
    /\ Idle /\ tile[t].alive
    /\ cfg # [param |-> renderParam, rect |-> tile[t].m_rect]
    /\ renderParam' = cfg.param
    /\ LET moved == [tile[t] EXCEPT !.m_rect = cfg.rect]
           key == pixmapKey(cfg.param, cfg.rect)
       IN /\ tile' = [tile EXCEPT ![t] = refresh(moved, s_cache, key, keep, setting)]
          /\ s_cache' = refreshCache(s_cache, key, keep, setting)
          /\ recent' = IF keep /\ setting /\ CacheContains(s_cache, key)
                       THEN Touch(recent, key) ELSE recent
    /\ task' = [task EXCEPT ![t] = setCancellation(@, TRUE)]
    /\ runs' = NoteCancel(t, TRUE)
    /\ out' = Out("refresh")
    /\ UNCHANGED <<queue, timer, mainpc, nruns>>

----------------------------------------------------------------------------
(* TileItem::cancelRender *)

\* cancelRender that also clears the error flag
cancelRenderClearsError(tl) ==
    [tl EXCEPT !.m_pixmap = NullPixmap, !.m_obsoletePixmap = NullPixmap,
               !.m_pixmapError = FALSE]

cancelRender(tl) == [tl EXCEPT !.m_pixmap = NullPixmap, !.m_obsoletePixmap = NullPixmap]

CancelRender(t) ==
    /\ Idle /\ tile[t].alive
    /\ task' = [task EXCEPT ![t] = setCancellation(@, FALSE)]
    /\ runs' = NoteCancel(t, FALSE)
    /\ tile' = [tile EXCEPT ![t] = cancelRender(@)]
    /\ out' = Out("cancelRender")
    /\ UNCHANGED <<renderParam, s_cache, queue, timer, mainpc, nruns, recent>>

----------------------------------------------------------------------------
(* TileItem::~TileItem, RenderTask::wait, TileItem::deleteAfterRender *)

\* a pool thread that has not yet left finish() now holds a deleted task
FreeRuns(rs, t) ==
    [r \in Runs |-> IF rs[r].tile = t /\ rs[r].pc \notin {"none", "done"}
                    THEN [rs[r] EXCEPT !.freed = TRUE, !.marks = NoMarks] ELSE rs[r]]

\* the queued deliveries that are not for tile t
RECURSIVE NotFor(_, _)
NotFor(q, t) ==
    IF q = <<>> THEN <<>>
    ELSE IF Head(q).tile # t THEN <<Head(q)>> \o NotFor(Tail(q), t)
    ELSE NotFor(Tail(q), t)

\* The tile and its RenderTask (a child object) are deleted: deliveries queued
\* for them are dropped and the timer is gone.
Deleted(t) ==
    /\ tile' = [tile EXCEPT ![t] = [NewTile(NullRect) EXCEPT !.alive = FALSE]]
    /\ task' = [task EXCEPT ![t] = NewTask]
    /\ queue' = NotFor(queue, t)
    /\ timer' = [timer EXCEPT ![t] = FALSE]
    /\ runs' = Tidy(FreeRuns(runs, t), NotFor(queue, t))

\* ~TileItem up to the call of wait(): m_renderTask->cancel(true)
Destroy(t) ==
    /\ Idle /\ tile[t].alive
    /\ task' = [task EXCEPT ![t] = setCancellation(@, TRUE)]
    /\ runs' = NoteCancel(t, TRUE)
    /\ mainpc' = <<"wait", t>>
    /\ out' = NoOut
    /\ UNCHANGED <<renderParam, s_cache, tile, queue, timer, nruns, recent>>

\* RenderTask::wait: with the mutex held, return if m_isRunning is false, else
\* block on the wait condition (which releases the mutex)
Wait(t) ==
    /\ mainpc = <<"wait", t>>
    /\ IF isRunning(task[t])
       THEN /\ mainpc' = <<"sleep", t>>
            /\ out' = NoOut
            /\ UNCHANGED <<tile, task, runs, queue, timer>>
       ELSE /\ mainpc' = <<"loop", 0>>
            /\ out' = Out("waited")
            /\ Deleted(t)
    /\ UNCHANGED <<renderParam, s_cache, nruns, recent>>

\* deleteAfterRender that does not ask the task whether it is running
deleteAtOnce(t) ==
    /\ Idle /\ tile[t].alive
    /\ Deleted(t)
    /\ out' = Out("deleteAfterRender")
    /\ UNCHANGED <<renderParam, s_cache, mainpc, nruns, recent>>

\* deleteAfterRender, called by the page or by its own single-shot timer
deleteAfterRender(t) ==
    /\ Idle /\ tile[t].alive
    /\ IF ~isRunning(task[t])
       THEN \* delete this: in ~TileItem wait() returns at once
            Deleted(t)
       ELSE /\ task' = [task EXCEPT ![t] = setCancellation(@, FALSE)]
            /\ runs' = NoteCancel(t, FALSE)
            /\ tile' = [tile EXCEPT ![t] = cancelRender(@)]
            /\ timer' = [timer EXCEPT ![t] = TRUE]
            /\ UNCHANGED queue
    /\ out' = Out("deleteAfterRender")
    /\ UNCHANGED <<renderParam, s_cache, mainpc, nruns, recent>>

DeleteAfterRender(t) == ~timer[t] /\ deleteAfterRender(t)

TimerShot(t) == timer[t] /\ deleteAfterRender(t)

\* TileItem::TileItem with the cache size the settings hold, and the page
\* giving the new tile its rectangle
Construct(t, cfg, cacheSize) ==
    /\ Idle /\ ~tile[t].alive
    /\ renderParam' = cfg.param
    /\ tile' = [tile EXCEPT ![t] = NewTile(cfg.rect)]
    /\ task' = [task EXCEPT ![t] = NewTask]
    /\ s_cache' = CacheSetMaxCost(s_cache, cacheSize)
    /\ recent' = Restrict(recent, s_cache')
    /\ out' = NoOut
    /\ UNCHANGED <<runs, queue, timer, mainpc, nruns>>

----------------------------------------------------------------------------
(* The slots of the queued signals *)

\* the slot without the comparison of the event with the tile's configuration
imageReadyUnchecked(tl, tk, c, param, e) ==
    IF isNull(e.image)
    THEN <<[tl EXCEPT !.m_obsoletePixmap = NullPixmap, !.m_pixmapError = TRUE], c, "error">>
    ELSE IF e.prefetch /\ ~wasCanceledForcibly(tk)
    THEN <<[tl EXCEPT !.m_obsoletePixmap = NullPixmap],
           CacheInsert(c, pixmapKey(param, tl.m_rect), fromImage(e.image), PixmapCost(e.image)),
           "inserted">>
    ELSE IF ~wasCanceled(tk)
    THEN <<[tl EXCEPT !.m_obsoletePixmap = NullPixmap, !.m_pixmap = fromImage(e.image)],
           c, "stored">>
    ELSE <<[tl EXCEPT !.m_obsoletePixmap = NullPixmap], c, "dropped">>

\* the slot that puts an on-demand image into the cache as well
imageReadyCachesAtOnce(tl, tk, c, param, e) ==
    IF param # e.param \/ tl.m_rect # e.rect
    THEN <<tl, c, "stale">>
    ELSE IF isNull(e.image)
    THEN <<[tl EXCEPT !.m_obsoletePixmap = NullPixmap, !.m_pixmapError = TRUE], c, "error">>
    ELSE IF e.prefetch /\ ~wasCanceledForcibly(tk)
    THEN <<[tl EXCEPT !.m_obsoletePixmap = NullPixmap],
           CacheInsert(c, pixmapKey(param, tl.m_rect), fromImage(e.image), PixmapCost(e.image)),
           "inserted">>
    ELSE IF ~wasCanceled(tk)
    THEN <<[tl EXCEPT !.m_obsoletePixmap = NullPixmap, !.m_pixmap = fromImage(e.image)],
           CacheInsert(c, pixmapKey(param, tl.m_rect), fromImage(e.image), PixmapCost(e.image)),
           "stored">>
    ELSE <<[tl EXCEPT !.m_obsoletePixmap = NullPixmap], c, "dropped">>

\* the slot that empties the obsolete buffer before it compares the event with
\* the tile's configuration
imageReadyClearsFirst(tl, tk, c, param, e) ==
    IF param # e.param \/ tl.m_rect # e.rect
    THEN <<[tl EXCEPT !.m_obsoletePixmap = NullPixmap], c, "stale">>
    ELSE IF isNull(e.image)
    THEN <<[tl EXCEPT !.m_obsoletePixmap = NullPixmap, !.m_pixmapError = TRUE], c, "error">>
    ELSE IF e.prefetch /\ ~wasCanceledForcibly(tk)
    THEN <<[tl EXCEPT !.m_obsoletePixmap = NullPixmap],
           CacheInsert(c, pixmapKey(param, tl.m_rect), fromImage(e.image), PixmapCost(e.image)),
           "inserted">>
    ELSE IF ~wasCanceled(tk)
    THEN <<[tl EXCEPT !.m_obsoletePixmap = NullPixmap, !.m_pixmap = fromImage(e.image)],
           c, "stored">>
    ELSE <<[tl EXCEPT !.m_obsoletePixmap = NullPixmap], c, "dropped">>

\* on_renderTask_imageReady: <<tile, cache, what was done>> after the slot
on_renderTask_imageReady(tl, tk, c, param, e) ==
    IF param # e.param \/ tl.m_rect # e.rect
    THEN <<tl, c, "stale">>
    ELSE IF isNull(e.image)
    THEN <<[tl EXCEPT !.m_obsoletePixmap = NullPixmap, !.m_pixmapError = TRUE], c, "error">>
    ELSE IF e.prefetch /\ ~wasCanceledForcibly(tk)
    THEN <<[tl EXCEPT !.m_obsoletePixmap = NullPixmap],
           CacheInsert(c, pixmapKey(param, tl.m_rect), fromImage(e.image), PixmapCost(e.image)),
           "inserted">>
    ELSE IF ~wasCanceled(tk)
    THEN <<[tl EXCEPT !.m_obsoletePixmap = NullPixmap, !.m_pixmap = fromImage(e.image)],
           c, "stored">>
    ELSE <<[tl EXCEPT !.m_obsoletePixmap = NullPixmap], c, "dropped">>

DeliverImageReady ==
    /\ Idle /\ queue # <<>> /\ Head(queue).sig = "imageReady"
    /\ LET e == Head(queue)
           res == on_renderTask_imageReady(tile[e.tile], task[e.tile], s_cache, renderParam, e)
       IN /\ tile' = [tile EXCEPT ![e.tile] = res[1]]
          /\ s_cache' = res[2]
          /\ recent' = IF res[3] = "inserted"
                       THEN Restrict(Touch(recent, Key(e.tile)), res[2]) ELSE recent
          /\ out' = [Out("imageReady") EXCEPT
                        !.image = IF isNull(e.image) THEN "null" ELSE "ok",
                        !.prefetch = e.prefetch, !.stale = (res[3] = "stale"),
                        !.inserted = (res[3] = "inserted"), !.stored = (res[3] = "stored"),
                        !.marks = runs[e.run].marks]
    /\ queue' = Tail(queue)
    /\ runs' = Tidy(runs, Tail(queue))
    /\ UNCHANGED <<renderParam, task, timer, mainpc, nruns>>

\* on_renderTask_finished: parentPage()->update()
DeliverFinished ==
    /\ Idle /\ queue # <<>> /\ Head(queue).sig = "finished"
    /\ out' = Out("finished")
    /\ queue' = Tail(queue)
    /\ UNCHANGED <<renderParam, s_cache, tile, task, runs, timer, mainpc, nruns, recent>>

----------------------------------------------------------------------------
(* RenderTask::run and RenderTask::finish on a pool thread *)

At(r, pc) == runs[r].pc = pc /\ ~runs[r].freed

Emit(r, sig) == [NoEvent EXCEPT !.sig = sig, !.tile = runs[r].tile, !.run = r]

\* finish() that emits nothing
finishSilently(r, rs) == [rs EXCEPT ![r].pc = "clear"]

\* finish(): emit finished(); the flag is cleared in the thread's next step
finish(r, rs) == [rs EXCEPT ![r].pc = "clear", ![r].emitted = Append(@, "finished")]

\* the checkpoint before rasterization: finish(), or enter m_page->render
RunCheckpoint1(r) ==
    /\ At(r, "cp1")
    /\ LET tk == task[runs[r].tile]
       IN IF testCancellation(tk.m_wasCanceled, tk.m_prefetch)
          THEN /\ runs' = finish(r, [runs EXCEPT ![r].marks = NoMarks])
               /\ queue' = Append(queue, Emit(r, "finished"))
          ELSE /\ runs' = [runs EXCEPT ![r].pc = "render"]
               /\ UNCHANGED queue
    /\ out' = NoOut
    /\ UNCHANGED <<renderParam, s_cache, tile, task, timer, mainpc, nruns, recent>>

\* m_page->render returns (ok: with an image); the checkpoint after it: finish(),
\* or emit imageReady
RunCheckpoint2(r, ok) ==
    /\ At(r, "render")
    /\ LET tk == task[runs[r].tile]
           image == render(tk.m_renderParam, tk.m_rect, ok)
       IN IF testCancellation(tk.m_wasCanceled, tk.m_prefetch)
          THEN /\ runs' = finish(r, [runs EXCEPT ![r].marks = NoMarks])
               /\ queue' = Append(queue, Emit(r, "finished"))
          ELSE /\ runs' = [runs EXCEPT ![r].pc = "cp3", ![r].emitted = Append(@, "imageReady")]
               /\ queue' = Append(queue, [Emit(r, "imageReady") EXCEPT
                                              !.param = tk.m_renderParam, !.rect = tk.m_rect,
                                              !.prefetch = tk.m_prefetch, !.image = image])
    /\ out' = NoOut
    /\ UNCHANGED <<renderParam, s_cache, tile, task, timer, mainpc, nruns, recent>>

\* the checkpoint before trimMargins: finish(), or emit cropBoxReady (no slot of
\* the tile is connected to it) and finish().  trim is the value of the
\* trim-margins setting at that moment: run() has "TODO: m_trimMargins" and the
\* constant true where it would be read.
RunCheckpoint3(r, trim) ==
    /\ At(r, "cp3")
    /\ LET tk == task[runs[r].tile]
       IN runs' = finish(r, [runs EXCEPT ![r].emitted =
                                 IF testCancellation(tk.m_wasCanceled, tk.m_prefetch)
                                 THEN @ ELSE Append(@, "cropBoxReady")])
    /\ queue' = Append(queue, Emit(r, "finished"))
    /\ out' = NoOut
    /\ UNCHANGED <<renderParam, s_cache, tile, task, timer, mainpc, nruns, recent>>

\* The request fields are written by start() before any thread reads them and
\* read by no thread that has left run(): once the run has cleared m_isRunning
\* their values are never read again, and the model forgets them.
Forget(tk) == [tk EXCEPT !.m_renderParam = ParamA, !.m_rect = NullRect, !.m_prefetch = FALSE]

\* finish() that leaves m_isRunning as it is
FinishKeepsRunning(r) ==
    /\ At(r, "clear")
    /\ runs' = [runs EXCEPT ![r].pc = "wake", ![r].emitted = <<>>]
    /\ out' = NoOut
    /\ UNCHANGED <<renderParam, s_cache, tile, task, queue, timer, mainpc, nruns, recent>>

\* finish(): m_isRunning = false under the mutex
FinishClear(r) ==
    /\ At(r, "clear")
    /\ runs' = [runs EXCEPT ![r].pc = "wake", ![r].emitted = <<>>]
    /\ task' = [task EXCEPT ![runs[r].tile] = Forget([@ EXCEPT !.m_isRunning = FALSE])]
    /\ out' = NoOut
    /\ UNCHANGED <<renderParam, s_cache, tile, queue, timer, mainpc, nruns, recent>>

\* finish() that wakes nobody
FinishWakeNobody(r) ==
    /\ runs[r].pc = "wake"
    /\ runs' = Tidy([runs EXCEPT ![r].pc = "done", ![r].freed = FALSE], queue)
    /\ out' = NoOut
    /\ UNCHANGED <<renderParam, s_cache, tile, task, queue, timer, mainpc, nruns, recent>>

\* finish(): m_waitCondition.wakeAll(); on a deleted task this is a use after free
FinishWake(r) ==
    /\ runs[r].pc = "wake"
    /\ runs' = Tidy([runs EXCEPT ![r].pc = "done", ![r].freed = FALSE], queue)
    /\ mainpc' = IF ~runs[r].freed /\ mainpc = <<"sleep", runs[r].tile>>
                 THEN <<"wait", runs[r].tile>> ELSE mainpc
    /\ out' = NoOut
    /\ UNCHANGED <<renderParam, s_cache, tile, task, queue, timer, nruns, recent>>

----------------------------------------------------------------------------
(* Specifications *)

\* the steps of the pool threads
Worker ==
    \/ \E r \in Runs : RunCheckpoint1(r)
    \/ \E r \in Runs, ok \in BOOLEAN : RunCheckpoint2(r, ok)
    \/ \E r \in Runs, trim \in BOOLEAN : RunCheckpoint3(r, trim)
    \/ \E r \in Runs : FinishClear(r)
    \/ \E r \in Runs : FinishWake(r)

\* the slots run by the event loop of the coordinating thread
Slots ==
    \/ DeliverImageReady
    \/ DeliverFinished

\* a tile that stays alive: rendering, painting, cancelling, reconfiguring
Next ==
    \/ \E t \in Tiles, prefetch \in BOOLEAN : StartRender(t, prefetch)
    \/ \E t \in Tiles : Paint(t)
    \/ \E t \in Tiles, keep \in BOOLEAN, setting \in BOOLEAN : Refresh(t, keep, setting)
    \/ \E t \in Tiles, cfg \in Configs, keep \in BOOLEAN, setting \in BOOLEAN :
          Reconfigure(t, cfg, keep, setting)
    \/ \E t \in Tiles : CancelRender(t)
    \/ Slots
    \/ Worker

Spec == Init /\ [][Next]_vars

\* a tile that is rendered, deleted and constructed again
NextLife ==
    \/ \E t \in Tiles, prefetch \in BOOLEAN : StartRender(t, prefetch)
    \/ \E t \in Tiles : Paint(t)
    \/ \E t \in Tiles, keep \in BOOLEAN, setting \in BOOLEAN : Refresh(t, keep, setting)
    \/ \E t \in Tiles : CancelRender(t)
    \/ \E t \in Tiles : Destroy(t)
    \/ \E t \in Tiles : Wait(t)
    \/ \E t \in Tiles : DeleteAfterRender(t)
    \/ \E t \in Tiles : TimerShot(t)
    \/ \E t \in Tiles, cfg \in NewConfigs, cacheSize \in CacheSizes :
          Construct(t, cfg, cacheSize)
    \/ Slots
    \/ Worker

SpecLife == Init /\ [][NextLife]_vars

\* a cache that earlier renders have filled: two tiles' worth of pixmaps, in
\* either order of insertion, for configurations other than the tile's
InitCache ==
    /\ renderParam = ParamA
    /\ \E first \in Configs, second \in Configs :
          /\ first.param # ParamA \/ first.rect # RectA
          /\ second.param # ParamA \/ second.rect # RectA
          /\ first # second
          /\ s_cache = CacheInsert(
                           CacheInsert(EmptyCache(10 * 1024 * 1024),
                                       pixmapKey(first.param, first.rect),
                                       fromImage(render(first.param, first.rect, TRUE)),
                                       PixmapCost(render(first.param, first.rect, TRUE))),
                           pixmapKey(second.param, second.rect),
                           fromImage(render(second.param, second.rect, TRUE)),
                           PixmapCost(render(second.param, second.rect, TRUE)))
          /\ recent = <<pixmapKey(second.param, second.rect), pixmapKey(first.param, first.rect)>>
    /\ tile = [t \in Tiles |-> NewTile(RectA)]
    /\ task = [t \in Tiles |-> NewTask]
    /\ runs = [r \in Runs |-> NoRun]
    /\ queue = <<>>
    /\ timer = [t \in Tiles |-> FALSE]
    /\ mainpc = <<"loop", 0>>
    /\ nruns = 0
    /\ out = NoOut

SpecCache == InitCache /\ [][Next]_vars

\* ---- trimMargins (rendertask.cpp) ----

MaxWidth == 5

MaxHeight == 2

\* pixels are compared with the paper colour only
Colors == {"paper", "ink"}

paperColor == "paper"

NullImage == [width |-> 0, height |-> 0, px |-> <<>>]

Images ==
    {NullImage} \cup
    UNION {{[width |-> w, height |-> h, px |-> f] : f \in [(0..(w - 1)) \X (0..(h - 1)) -> Colors]} :
              w \in 1..MaxWidth, h \in 1..MaxHeight}

\* a page of 100 x 100 pixels with a margin of 10 paper-coloured pixels on
\* every side
FramedImage ==
    [width |-> 100, height |-> 100,
     px |-> [p \in (0..99) \X (0..99) |->
                IF p[1] \in 10..89 /\ p[2] \in 10..89 THEN "ink" ELSE "paper"]]

TrimInputs == Images \cup {FramedImage}

pixel(image, x, y) == image.px[<<x, y>>]

columnHasPaperColor(x, image) ==
    \A y \in 0..(image.height - 1) : ~(paperColor # pixel(image, x, y))

rowHasPaperColor(y, image) ==
    \A x \in 0..(image.width - 1) : ~(paperColor # pixel(image, x, y))

\* crop boxes are counted in units of 1 / cropBoxPrecision
cropBoxPrecision == 100

\* cropBoxTolerance = 0.05, in per cent
cropBoxTolerance == 5

RECURSIVE Gcd(_, _)
Gcd(a, b) == IF b = 0 THEN a ELSE Gcd(b, a % b)

\* static_cast< qreal >(num) / den is the double nearest to the fraction, so
\* it depends on the fraction in lowest terms only
Lowest(num, den) == <<num \div Gcd(num, den), den \div Gcd(num, den)>>

\* The fractions (denominator up to 10 in lowest terms) for which the product
\* computed in double precision is not the exact one: (1.0 - 0.05) * (3.0 / 5)
\* * 100.0 lies just below 57, and (1.0 + 0.05) * (num / 5.0) * 100.0 lies
\* just above the integer for num = 1, 2, 4.
BelowExact == {<<3, 5>>}

AboveExact == {<<1, 5>>, <<2, 5>>, <<4, 5>>}

\* roundDown that leaves the tolerance out
roundDownExact(num, den) == (num * cropBoxPrecision) \div den

\* roundDown(num / den, cropBoxPrecision, cropBoxTolerance) * cropBoxPrecision
roundDown(num, den) ==
    (((100 - cropBoxTolerance) * num * cropBoxPrecision) \div (100 * den))
        - (IF Lowest(num, den) \in BelowExact THEN 1 ELSE 0)

\* roundUp that leaves the tolerance out
roundUpExact(num, den) == (num * cropBoxPrecision + den - 1) \div den

\* roundUp(num / den, cropBoxPrecision, cropBoxTolerance) * cropBoxPrecision
roundUp(num, den) ==
    (((100 + cropBoxTolerance) * num * cropBoxPrecision + 100 * den - 1) \div (100 * den))
        + (IF Lowest(num, den) \in AboveExact THEN 1 ELSE 0)

\* a box without extent
EmptyBox == [x |-> 0, y |-> 0, w |-> 0, h |-> 0]

UnitBox == [x |-> 0, y |-> 0, w |-> cropBoxPrecision, h |-> cropBoxPrecision]

\* a scan that ends where it began when it finds nothing
LeastOrZero(S, dflt) == IF S = {} THEN 0 ELSE CHOOSE a \in S : \A b \in S : a <= b

Least(S, dflt) == IF S = {} THEN dflt ELSE CHOOSE a \in S : \A b \in S : a <= b

Greatest(S, dflt) == IF S = {} THEN dflt ELSE CHOOSE a \in S : \A b \in S : a >= b

trimMargins(image) ==
    IF image.width = 0
    THEN UnitBox
    ELSE LET width == image.width
             height == image.height
             left == Least({x \in 0..(width - 1) : ~columnHasPaperColor(x, image)}, width)
             right == Greatest({x \in left..(width - 1) : ~columnHasPaperColor(x, image)}, left - 1)
             top == Least({y \in 0..(height - 1) : ~rowHasPaperColor(y, image)}, height)
             bottom == Greatest({y \in top..(height - 1) : ~rowHasPaperColor(y, image)}, top - 1)
         IN [x |-> roundDown(left, width),
             y |-> roundDown(top, height),
             w |-> roundUp(right - left + 1, width),
             h |-> roundUp(bottom - top + 1, height)]

\* run() holds a rendered image (or a null one) and hands it to trimMargins
\* before it emits cropBoxReady
InitTrim ==
    /\ renderParam = ParamA
    /\ s_cache = EmptyCache(10 * 1024 * 1024)
    /\ tile = [t \in Tiles |-> NewTile(RectA)]
    /\ task = [t \in Tiles |-> NewTask]
    /\ runs = [r \in Runs |-> NoRun]
    /\ queue = <<>>
    /\ timer = [t \in Tiles |-> FALSE]
    /\ mainpc = <<"loop", 0>>
    /\ nruns = 0
    /\ recent = <<>>
    /\ \E image \in TrimInputs : out = [op |-> "image", image |-> image, box |-> UnitBox]

TrimMargins ==
    /\ out.op = "image"
    /\ out' = [out EXCEPT !.op = "trimMargins", !.box = trimMargins(out.image)]
    /\ UNCHANGED <<renderParam, s_cache, tile, task, runs, queue, timer, mainpc, nruns, recent>>

NextTrim == TrimMargins

SpecTrim == InitTrim /\ [][NextTrim]_vars

\* a tile that is rendered and then deleted, by the page or after its render;
\* the pool schedules every worker, the event loop fires the zero timer and
\* the coordinating thread runs when wait() can go on
NextEnd ==
    \/ \E t \in Tiles, prefetch \in BOOLEAN : StartRender(t, prefetch)
    \/ \E t \in Tiles : CancelRender(t)
    \/ \E t \in Tiles : Destroy(t)
    \/ \E t \in Tiles : Wait(t)
    \/ \E t \in Tiles : DeleteAfterRender(t)
    \/ \E t \in Tiles : TimerShot(t)
    \/ Slots
    \/ Worker

SpecFair ==
    /\ Init /\ [][NextEnd]_vars
    /\ WF_vars(Worker)
    /\ WF_vars(\E t \in Tiles : TimerShot(t))
    /\ WF_vars(\E t \in Tiles : Wait(t))

\* a tile of a page whose parameters stay as they are, among the page's other tiles
NextTile ==
    \/ \E t \in Tiles, prefetch \in BOOLEAN : StartRender(t, prefetch)
    \/ \E t \in Tiles : Paint(t)
    \/ \E t \in Tiles, keep \in BOOLEAN, setting \in BOOLEAN : Refresh(t, keep, setting)
    \/ \E t \in Tiles : CancelRender(t)
    \/ \E rect \in OtherRects : OtherTilePaint(rect)
    \/ Slots
    \/ Worker

SpecTile == Init /\ [][NextTile]_vars

\* a tile of a page whose cache has the 10 MB or the 2 MB of the cacheSize
\* setting, which the constructor passes to setMaxCost
InitSized ==
    /\ renderParam = ParamA
    /\ \E cacheSize \in CacheSizes : s_cache = EmptyCache(cacheSize)
    /\ tile = [t \in Tiles |-> NewTile(RectA)]
    /\ task = [t \in Tiles |-> NewTask]
    /\ runs = [r \in Runs |-> NoRun]
    /\ queue = <<>>
    /\ timer = [t \in Tiles |-> FALSE]
    /\ mainpc = <<"loop", 0>>
    /\ nruns = 0
    /\ recent = <<>>
    /\ out = NoOut

NextSized ==
    \/ \E t \in Tiles, prefetch \in BOOLEAN : StartRender(t, prefetch)
    \/ \E t \in Tiles : Paint(t)
    \/ \E t \in Tiles : CancelRender(t)
    \/ Slots
    \/ Worker

SpecSized == InitSized /\ [][NextSized]_vars

\* a page whose parameters change field by field while its tile is painted;
\* a prefetch of the tile has completed before
InitKey ==
    /\ renderParam = ParamA
    /\ s_cache = CacheInsert(EmptyCache(10 * 1024 * 1024), pixmapKey(ParamA, RectA),
                             fromImage(render(ParamA, RectA, TRUE)),
                             PixmapCost(render(ParamA, RectA, TRUE)))
    /\ recent = <<pixmapKey(ParamA, RectA)>>
    /\ tile = [t \in Tiles |-> NewTile(RectA)]
    /\ task = [t \in Tiles |-> NewTask]
    /\ runs = [r \in Runs |-> NoRun]
    /\ queue = <<>>
    /\ timer = [t \in Tiles |-> FALSE]
    /\ mainpc = <<"loop", 0>>
    /\ nruns = 0
    /\ out = NoOut

NextKey ==
    \/ \E t \in Tiles : Paint(t)
    \/ \E t \in Tiles, cfg \in KeyConfigs, keep \in BOOLEAN, setting \in BOOLEAN :
          Reconfigure(t, cfg, keep, setting)

SpecKey == InitKey /\ [][NextKey]_vars

\* RenderTask::start taken statement by statement, with cancel(true) called
\* from a thread other than the one that starts the task

\* start() up to the release of the mutex: the request fields are written and
\* m_isRunning is set; the cancellation flag is as it was
startSetsRunning(tk, param, rect, prefetch) ==
    [tk EXCEPT !.m_renderParam = param, !.m_rect = rect,
               !.m_prefetch = prefetch, !.m_isRunning = TRUE]

\* startRender accepts the request and start() runs up to m_mutex.unlock()
StartLock(t, prefetch) ==
    /\ Idle /\ tile[t].alive
    /\ ~startRenderRejects(t, prefetch)
    /\ nruns < MaxRuns
    /\ task' = [task EXCEPT ![t] = startSetsRunning(@, renderParam, tile[t].m_rect, prefetch)]
    /\ runs' = [runs EXCEPT ![nruns + 1] = [NoRun EXCEPT !.tile = t, !.pc = "start"]]
    /\ nruns' = nruns + 1
    /\ mainpc' = <<"start", t>>
    /\ out' = [Out("startRender") EXCEPT !.prefetch = prefetch]
    /\ UNCHANGED <<renderParam, s_cache, tile, queue, timer, recent>>

\* the rest of start(): resetCancellation, then the task is handed to the pool
StartReset(t) ==
    /\ mainpc = <<"start", t>>
    /\ task' = [task EXCEPT ![t] = resetCancellation(@)]
    /\ runs' = [runs EXCEPT ![nruns].pc = "cp1"]
    /\ mainpc' = <<"loop", 0>>
    /\ out' = [Out("startRender") EXCEPT !.ret = 1, !.prefetch = task[t].m_prefetch]
    /\ UNCHANGED <<renderParam, s_cache, tile, queue, timer, nruns, recent>>

\* cancel(true) from another thread that has seen isRunning() return true; the
\* call is noted on the run being started or in flight
CancelFromThread(t) ==
    /\ tile[t].alive /\ isRunning(task[t])
    /\ task' = [task EXCEPT ![t] = setCancellation(@, TRUE)]
    /\ runs' = [r \in Runs |->
                   IF runs[r].tile = t /\ ~runs[r].freed /\ (runs[r].pc = "start" \/ InFlight(r))
                   THEN [runs[r] EXCEPT !.marks.force = "run"]
                   ELSE runs[r]]
    /\ out' = Out("cancel")
    /\ UNCHANGED <<renderParam, s_cache, tile, queue, timer, mainpc, nruns, recent>>

NextStart ==
    \/ \E t \in Tiles, prefetch \in BOOLEAN : StartLock(t, prefetch)
    \/ \E t \in Tiles : StartReset(t)
    \/ \E t \in Tiles : CancelFromThread(t)
    \/ Slots
    \/ Worker

SpecStart == Init /\ [][NextStart]_vars

----------------------------------------------------------------------------
(* The claims *)

\* C1: at most one run of a tile's RenderTask is in flight at a time; a
\* startRender (called directly or by paint) while isRunning() is true returns 0
\* and does not call RenderTask::start: the task and the runs stay as they are.
C1_OneRunInFlight ==
    [][\A t \in Tiles :
          /\ Cardinality({r \in Runs : runs'[r].tile = t /\ InFlight(r)'}) =< 1
          /\ (isRunning(task[t]) /\ out'.op \in {"startRender", "paint"})
                => /\ nruns' = nruns /\ task' = task /\ runs' = runs
                   /\ out'.op = "startRender" => out'.ret = 0]_vars

\* a startRender that was refused only because the task was running
C1_Witness ==
    /\ out.op = "startRender" /\ out.ret = 0
    /\ isRunning(task[1]) /\ ~tile[1].m_pixmapError /\ ~CacheContains(s_cache, Key(1))
    /\ \E r \in Runs : runs[r].tile = 1 /\ InFlight(r)

\* C2: when the image-ready event of a run is delivered after the tile's render
\* parameters or rectangle were changed (with refresh()) so that they differ from
\* the event's, the delivery changes neither the tile's current buffer nor the
\* shared cache, under any key.
C2_StaleResultDiscarded ==
    [][(/\ out'.op = "imageReady" /\ queue # <<>>
        /\ \/ Head(queue).param # renderParam
           \/ Head(queue).rect # tile[Head(queue).tile].m_rect)
          => /\ tile'[Head(queue).tile].m_pixmap = tile[Head(queue).tile].m_pixmap
             /\ s_cache' = s_cache]_vars

\* a non-null image of a run that refresh() hit was delivered to a tile whose
\* configuration had changed
C2_Witness ==
    /\ out.op = "imageReady" /\ out.stale /\ out.image = "ok"
    /\ out.marks.force # "none"

\* C3: the image-ready event of a prefetch run on which cancel(true) was called
\* before the run finished is never inserted into the cache.
C3_ForcedPrefetchNotCached ==
    (out.op = "imageReady" /\ out.prefetch /\ out.marks.force = "run") => ~out.inserted

C5_WaitOutlivesWorker ==
    out.op = "waited" => \A r \in Runs : ~runs[r].freed

\* C6: the image of an on-demand run on which cancel(false) was called between
\* start() and the handling of its image-ready event is neither kept as the
\* tile's buffer nor inserted into the cache; and when the cancel precedes the
\* checkpoint after rasterization, the run emits finished without image-ready.
C6_SoftCanceledOnDemandDropped ==
    [][/\ (out'.op = "imageReady" /\ ~out'.prefetch /\ out'.marks.soft)
             => ~out'.stored /\ ~out'.inserted
       /\ \A r \in Runs :
            (/\ runs[r].pc \in {"cp1", "render"}
             /\ ~task[runs[r].tile].m_prefetch
             /\ runs[r].marks.soft
             /\ runs'[r].pc # runs[r].pc)
               => runs'[r].pc = "clear" /\ runs'[r].emitted = <<"finished">>]_vars

\* C7: a run emits image-ready at most once, crop-box-ready at most once and
\* only after image-ready, finished exactly once and last; the events of a run
\* are queued in that order.
EventOrders ==
    {<<>>, <<"imageReady">>, <<"imageReady", "cropBoxReady">>, <<"finished">>,
     <<"imageReady", "finished">>, <<"imageReady", "cropBoxReady", "finished">>}

C8_DirtyAfterRefresh ==
    [][(out.op = "refresh" /\ out'.op = "paint") => out'.drew # "pixmap"]_vars

\* C9: the sum of width * height * depth / 8 over the resident pixmaps never
\* exceeds the cache's maximum cost.
RECURSIVE SumOfCosts(_)
SumOfCosts(nodes) ==
    IF nodes = <<>> THEN 0
    ELSE (Head(nodes).t.w * Head(nodes).t.h * (Head(nodes).t.depth \div 8))
         + SumOfCosts(Tail(nodes))

C9_CostWithinMaximum == SumOfCosts(s_cache.nodes) =< s_cache.mx

\* C10: the cache's list is the order of last insert or lookup hit, and what a
\* step leaves resident is the most recent part of that order: entries leave
\* from the least recent end, except an entry replaced by an insertion the
\* cache does not admit.
KeysOf(c) == [i \in 1..Len(c.nodes) |-> c.nodes[i].key]

IsPrefix(a, b) == Len(a) =< Len(b) /\ a = SubSeq(b, 1, Len(a))

AllKeys == {pixmapKey(cfg.param, cfg.rect) : cfg \in NewConfigs}

Pages == {Page, "another page"}

KeyFields(param, rect) ==
    <<<<param.resolutionX, param.resolutionY>>, param.scaleFactor, param.rotation,
      param.invertColors, rect>>

C11_KeyExact ==
    [][\A t \in Tiles :
          LET old == KeyFields(renderParam, tile[t].m_rect)
              new == KeyFields(renderParam', tile'[t].m_rect)
          IN /\ Cardinality({i \in 1..5 : old[i] # new[i]}) = 1 => Key(t)' # Key(t)
             /\ old = new => Key(t)' = Key(t)
             /\ \A p \in Pages, q \in Pages :
                   p # q => <<p, keystr(renderParam, tile[t].m_rect)>>
                               # <<q, keystr(renderParam, tile[t].m_rect)>>]_vars

\* C12: the pixmap a paint takes from the cache under the tile's key was
\* rendered with RenderParam equal to the page's in every field, the device
\* pixel ratio included.
C12_ReuseOnlyEqualParams ==
    (out.op = "paint" /\ out.drew = "pixmap" /\ CacheContains(s_cache, Key(1)))
       => CacheObject(s_cache, Key(1)).param = renderParam

C14_PaintPriority ==
    [][\A t \in Tiles :
          out'.op = "paint"
             => out'.drew =
                   IF CacheContains(s_cache, Key(t)) \/ ~isNull(tile[t].m_pixmap) THEN "pixmap"
                   ELSE IF ~isNull(tile[t].m_obsoletePixmap) THEN "obsolete"
                   ELSE IF tile[t].m_pixmapError THEN "error"
                   ELSE "progress"]_vars

\* a paint that drew the obsolete pixmap
C14_Witness == out.op = "paint" /\ out.drew = "obsolete"

\* C15: startRender returns 0 and starts nothing exactly when the error flag
\* is set, a run is in flight, or (prefetch only) the cache holds the tile's
\* key; otherwise it starts one run with the page's parameters, the tile's
\* rectangle and the prefetch flag given, and returns 1.
C15_StartRenderExact ==
    [][\A t \in Tiles :
          out'.op = "startRender"
             => IF \/ tile[t].m_pixmapError
                   \/ isRunning(task[t])
                   \/ (out'.prefetch /\ CacheContains(s_cache, Key(t)))
                THEN out'.ret = 0 /\ nruns' = nruns /\ task' = task /\ runs' = runs
                ELSE /\ out'.ret = 1 /\ nruns' = nruns + 1
                     /\ task'[t] = [m_isRunning |-> TRUE, m_wasCanceled |-> NotCanceled,
                                    m_renderParam |-> renderParam, m_rect |-> tile[t].m_rect,
                                    m_prefetch |-> out'.prefetch]
                     /\ runs'[nruns'].tile = t /\ runs'[nruns'].pc = "cp1"
                     /\ \A r \in Runs \ {nruns'} : runs'[r] = runs[r]]_vars

\* an on-demand startRender started a run although the cache holds the key
C15_Witness ==
    /\ out.op = "startRender" /\ out.ret = 1 /\ ~out.prefetch
    /\ CacheContains(s_cache, Key(1))

\* C16: cancelRender stores the normal cancellation in the task's flag and
\* empties the current and the obsolete pixmap; the error flag, the cache, the
\* task's running state and request, the queued events stay as they are and
\* the coordinating thread does not wait.
C16_CancelRenderFrame ==
    [][\A t \in Tiles :
          out'.op = "cancelRender"
             => /\ task'[t] = [task[t] EXCEPT !.m_wasCanceled = CanceledNormally]
                /\ isNull(tile'[t].m_pixmap) /\ isNull(tile'[t].m_obsoletePixmap)
                /\ tile'[t].m_pixmapError = tile[t].m_pixmapError
                /\ tile'[t].m_rect = tile[t].m_rect
                /\ s_cache' = s_cache /\ queue' = queue
                /\ mainpc' = <<"loop", 0>>]_vars

\* cancelRender on a tile with the error flag set and a run in flight
C16_Witness ==
    /\ out.op = "cancelRender"
    /\ tile[1].m_pixmapError /\ isRunning(task[1]) /\ s_cache.nodes # <<>>

\* C19: from the return of start() until finish() clears the flag isRunning()
\* is true, also while the worker has not begun run(), and a startRender in
\* that window is refused.
C19_RunningFromStart ==
    [][/\ \A r \in Runs :
            runs'[r].pc \in {"cp1", "render", "cp3", "clear"}
               => isRunning(task'[runs'[r].tile])
       /\ (out'.op = "startRender" /\ out'.ret = 1)
             => isRunning(task'[runs'[nruns'].tile]) /\ runs'[nruns'].pc = "cp1"
       /\ (out'.op = "startRender"
           /\ \E r \in Runs : runs[r].pc \in {"cp1", "render", "cp3", "clear"})
             => out'.ret = 0 /\ nruns' = nruns]_vars

\* start() has returned, the worker has not begun, and a second startRender
\* was refused
C19_Witness ==
    /\ out.op = "startRender" /\ out.ret = 0
    /\ \E r \in Runs : runs[r].pc = "cp1" /\ isRunning(task[runs[r].tile])
    /\ ~tile[1].m_pixmapError

\* C17: a deleteAfterRender poll that finds isRunning() true cancels normally,
\* keeps the tile and arms the timer again, one that finds it false deletes
\* the tile; a prefetch run being polled is not aborted by that cancellation;
\* a deleted tile stays deleted; and under fair scheduling an armed poll leads
\* to the tile's deletion.
C17_DeleteAfterRender ==
    /\ [][\A t \in Tiles :
             /\ out'.op = "deleteAfterRender"
                   => IF isRunning(task[t])
                      THEN /\ tile'[t].alive /\ timer'[t]
                           /\ task'[t].m_wasCanceled = CanceledNormally
                           /\ ~testCancellation(task'[t].m_wasCanceled, TRUE)
                      ELSE ~tile'[t].alive /\ ~timer'[t]
             /\ (out'.op = "deleteAfterRender" /\ ~tile'[t].alive)
                   => \A r \in Runs : runs[r].tile = t => ~InFlight(r)
             /\ \A r \in Runs :
                   (/\ At(r, "cp1") /\ runs[r].tile = t /\ runs'[r].pc # "cp1"
                    /\ task[t].m_prefetch /\ task[t].m_wasCanceled = CanceledNormally)
                   => runs'[r].pc = "render"
             /\ ~tile[t].alive => ~tile'[t].alive]_vars
    /\ \A t \in Tiles : timer[t] ~> ~tile[t].alive

\* a poll found the task running and armed the timer
C17_Witness ==
    /\ out.op = "deleteAfterRender" /\ timer[1] /\ tile[1].alive
    /\ isRunning(task[1]) /\ task[1].m_prefetch

\* C18: wait() returns only when m_isRunning is false, blocks only when it is
\* true, and under fair scheduling a thread that has called wait() gets out
\* of it.
C18_WaitReturns ==
    /\ [][\A t \in Tiles :
             /\ (mainpc \in {<<"wait", t>>, <<"sleep", t>>} /\ mainpc' = <<"loop", 0>>)
                   => ~isRunning(task[t])
             /\ (mainpc = <<"wait", t>> /\ mainpc' = <<"sleep", t>>) => isRunning(task[t])]_vars
    /\ \A t \in Tiles : (mainpc = <<"wait", t>>) ~> (mainpc = <<"loop", 0>>)

\* wait() has blocked and has been woken by finish()
C18_Witness ==
    /\ mainpc = <<"wait", 1>> /\ ~isRunning(task[1])
    /\ \E r \in Runs : runs[r].tile = 1 /\ runs[r].pc = "done"

\* the first and the last column and the first and the last row of the image
\* each hold a pixel that is not of the paper colour
NoUniformBorder(image) ==
    /\ image.width > 0
    /\ ~columnHasPaperColor(0, image) /\ ~columnHasPaperColor(image.width - 1, image)
    /\ ~rowHasPaperColor(0, image) /\ ~rowHasPaperColor(image.height - 1, image)

InkColumns(image) == {x \in 0..(image.width - 1) : \E y \in 0..(image.height - 1) : image.px[<<x, y>>] # "paper"}

InkRows(image) == {y \in 0..(image.height - 1) : \E x \in 0..(image.width - 1) : image.px[<<x, y>>] # "paper"}

First(S) == CHOOSE a \in S : \A b \in S : a <= b

Last(S) == CHOOSE a \in S : \A b \in S : a >= b

\* floor(0.95 * (num / den) * 100) and ceil(1.05 * (num / den) * 100) over the
\* rationals
FloorOf95(num, den) == (95 * num) \div den

CeilOf105(num, den) == ((105 * num) + den - 1) \div den

HasInk(image) == image.width > 0 /\ InkColumns(image) # {}

\* C21: for a non-null image that holds a non-paper pixel, each of left and top
\* is floor(0.95 * fraction * 100) / 100 or one hundredth less, each of width
\* and height is ceil(1.05 * fraction * 100) / 100 or one hundredth more, and it
\* is the value of the formula whenever 0.95 * fraction * 100 (1.05 * fraction *
\* 100) is not a whole number; for the 100 x 100 image with a margin of 10
\* pixels the result is (0.09, 0.09, 0.85, 0.85).
C21_RoundingRule ==
    (out.op = "trimMargins" /\ HasInk(out.image))
        => LET W == out.image.width
               H == out.image.height
               L == First(InkColumns(out.image))
               R == Last(InkColumns(out.image))
               T == First(InkRows(out.image))
               B == Last(InkRows(out.image))
           IN /\ out.box.x \in {FloorOf95(L, W), FloorOf95(L, W) - 1}
              /\ out.box.y \in {FloorOf95(T, H), FloorOf95(T, H) - 1}
              /\ out.box.w \in {CeilOf105(R - L + 1, W), CeilOf105(R - L + 1, W) + 1}
              /\ out.box.h \in {CeilOf105(B - T + 1, H), CeilOf105(B - T + 1, H) + 1}
              /\ (95 * L) % W # 0 => out.box.x = FloorOf95(L, W)
              /\ (95 * T) % H # 0 => out.box.y = FloorOf95(T, H)
              /\ (105 * (R - L + 1)) % W # 0 => out.box.w = CeilOf105(R - L + 1, W)
              /\ (105 * (B - T + 1)) % H # 0 => out.box.h = CeilOf105(B - T + 1, H)
              /\ out.image = FramedImage => out.box = [x |-> 9, y |-> 9, w |-> 85, h |-> 85]

\* C21 as stated: the returned box is exactly (floor(0.95 * (L / W) * 100) / 100,
\* floor(0.95 * (T / H) * 100) / 100, ceil(1.05 * ((R - L + 1) / W) * 100) / 100,
\* ceil(1.05 * ((B - T + 1) / H) * 100) / 100).
C21_ExactFormula ==
    (out.op = "trimMargins" /\ HasInk(out.image))
        => LET W == out.image.width
               H == out.image.height
               L == First(InkColumns(out.image))
               R == Last(InkColumns(out.image))
               T == First(InkRows(out.image))
               B == Last(InkRows(out.image))
           IN out.box = [x |-> FloorOf95(L, W), y |-> FloorOf95(T, H),
                         w |-> CeilOf105(R - L + 1, W), h |-> CeilOf105(B - T + 1, H)]

\* the framed 100 x 100 image was trimmed
C21_Witness ==
    /\ out.op = "trimMargins" /\ out.image = FramedImage
    /\ out.box.x > 0 /\ out.box.w < 100

\* C22: trimMargins of a null image returns exactly (0, 0, 1, 1), and the
\* width and the height it returns are never negative, for a null image and
\* for every other one.
C22_NullImageUnitBox ==
    out.op = "trimMargins"
        => /\ out.image.width = 0 => out.box = [x |-> 0, y |-> 0, w |-> 100, h |-> 100]
           /\ out.box.w >= 0 /\ out.box.h >= 0

\* the null image was trimmed
C22_Witness == out.op = "trimMargins" /\ out.image = NullImage /\ out.box.w = 100

\* C30: for a non-null image whose pixels all have the paper colour
\* trimMargins returns left = top = 0.95 (the rounded-down value of 1) and
\* width = height = 0, not the unit rectangle.
C30_UniformImageDegenerate ==
    (out.op = "trimMargins" /\ out.image.width > 0 /\ ~HasInk(out.image))
        => out.box = [x |-> 95, y |-> 95, w |-> 0, h |-> 0] /\ out.box # UnitBox

\* an all-paper image of several columns and rows was trimmed
C30_Witness ==
    /\ out.op = "trimMargins" /\ out.image.width > 1 /\ out.image.height > 1
    /\ \A p \in DOMAIN out.image.px : out.image.px[p] = paperColor

\* C23: a run emits cropBoxReady only if the trim-margins setting is enabled
\* and the checkpoint after imageReady did not trip; with the setting disabled
\* no run emits cropBoxReady.
C23_CropBoxOnlyWhenTrimming ==
    [][\A r \in Runs, trim \in BOOLEAN :
          (/\ RunCheckpoint3(r, trim)
           /\ runs'[r].emitted = runs[r].emitted \o <<"cropBoxReady", "finished">>)
          => (/\ trim
              /\ ~testCancellation(task[runs[r].tile].m_wasCanceled,
                                   task[runs[r].tile].m_prefetch))]_vars

\* the part of C23 that holds: cropBoxReady is emitted only by a run whose
\* checkpoint after imageReady did not trip
CropBoxOnlyPastCheckpoint ==
    [][\A r \in Runs :
          (/\ At(r, "cp3")
           /\ runs'[r].emitted = runs[r].emitted \o <<"cropBoxReady", "finished">>)
          => ~testCancellation(task[runs[r].tile].m_wasCanceled,
                               task[runs[r].tile].m_prefetch)]_vars

\* the paint takes the tile's directly held pixmap: the key is not cached and
\* m_pixmap is not null
Consumes(t) ==
    /\ out'.op = "paint" /\ tile[t].alive
    /\ ~CacheContains(s_cache, Key(t)) /\ ~isNull(tile[t].m_pixmap)

\* C24: an on-demand image the tile accepts is held in m_pixmap and the cache
\* is left as it was; the paint that consumes it empties m_pixmap and hands it
\* to the cache under the current key, which holds it afterwards if its cost
\* is within the maximum cost and does not hold the key if it is not.
C24_LazyPromotion ==
    [][\A t \in Tiles :
          /\ (out'.op = "imageReady" /\ out'.stored /\ Head(queue).tile = t)
                => /\ ~isNull(tile'[t].m_pixmap)
                   /\ s_cache' = s_cache
          /\ Consumes(t)
                => /\ isNull(tile'[t].m_pixmap)
                   /\ out'.drew = "pixmap"
                   /\ IF PixmapCost(tile[t].m_pixmap) <= s_cache.mx
                      THEN /\ CacheContains(s_cache', Key(t))
                           /\ CacheObject(s_cache', Key(t)) = tile[t].m_pixmap
                      ELSE ~CacheContains(s_cache', Key(t))]_vars

\* C24 as stated: after the paint that consumes the image the direct buffer is
\* empty and the cache holds the tile's key.
C24_PromotionAlways ==
    [][\A t \in Tiles :
          Consumes(t) => isNull(tile'[t].m_pixmap) /\ CacheContains(s_cache', Key(t))]_vars

\* a paint has consumed the on-demand image and the cache holds it
C24_Witness ==
    /\ out.op = "paint" /\ out.inserted /\ out.drew = "pixmap"
    /\ isNull(tile[1].m_pixmap) /\ CacheContains(s_cache, Key(1))

\* C26: a paint that consumes an on-demand image whose cost exceeds the
\* maximum cost draws the image and leaves the error flag as it was; and a
\* paint of a tile without error that finds neither a cached nor a directly
\* held pixmap starts a render unless one is running, so the tile can show the
\* image again.
C26_OversizedIsNoError ==
    [][\A t \in Tiles :
          /\ (Consumes(t) /\ PixmapCost(tile[t].m_pixmap) > s_cache.mx)
                => /\ out'.drew = "pixmap"
                   /\ tile'[t].m_pixmapError = tile[t].m_pixmapError
                   /\ ~CacheContains(s_cache', Key(t))
          /\ (/\ out.op = "paint" /\ out.inserted /\ ~CacheContains(s_cache, Key(t))
              /\ out'.op = "paint" /\ ~tile[t].m_pixmapError)
                => \/ out'.ret = 1 /\ isRunning(task'[t]) /\ ~task'[t].m_prefetch
                   \/ isRunning(task[t])]_vars

\* a paint has drawn an on-demand image that the cache did not admit, and the
\* tile shows no error
C26_Witness ==
    /\ out.op = "paint" /\ out.inserted /\ out.drew = "pixmap"
    /\ ~CacheContains(s_cache, Key(1)) /\ ~tile[1].m_pixmapError
    /\ isNull(tile[1].m_pixmap) /\ ~isRunning(task[1])

\* what the cache holds, apart from the order of use
Contents(c) == [mx |-> c.mx, total |-> c.total,
                entries |-> {c.nodes[i] : i \in 1..Len(c.nodes)}]

\* C25: refresh(keepObsoletePixmaps) with the argument true and the setting
\* enabled makes the obsolete pixmap the one cached under the tile's key, or
\* leaves it as it was if the key is not cached; in every other case it empties
\* the obsolete pixmap; and the cache holds after refresh what it held before.
C25_RefreshObsolete ==
    [][\A t \in Tiles, keep \in BOOLEAN, setting \in BOOLEAN :
          Refresh(t, keep, setting)
             => /\ tile'[t].m_obsoletePixmap =
                      IF keep /\ setting
                      THEN (IF Key(t) \in Resident(s_cache)
                            THEN CacheObject(s_cache, Key(t))
                            ELSE tile[t].m_obsoletePixmap)
                      ELSE NullPixmap
                /\ Contents(s_cache') = Contents(s_cache)
                /\ Len(s_cache'.nodes) = Len(s_cache.nodes)]_vars

\* a refresh has left an obsolete pixmap on the tile whose key is cached
C25_Witness ==
    /\ out.op = "refresh" /\ ~isNull(tile[1].m_obsoletePixmap)
    /\ CacheContains(s_cache, Key(1))
    /\ CacheObject(s_cache, Key(1)) = tile[1].m_obsoletePixmap

\* C27: cancel(force) on a task that is not running changes nothing of the
\* task but the cancellation flag, the running flag stays false; start() leaves
\* the flag at NotCanceled whatever it was; and a run stops at its first
\* checkpoint only if a cancel call was made after its start.
C27_IdleCancelNoOp ==
    [][\A t \in Tiles :
          /\ (out'.op \in {"cancelRender", "refresh"} /\ ~isRunning(task[t]))
                => /\ ~isRunning(task'[t])
                   /\ [task'[t] EXCEPT !.m_wasCanceled = NotCanceled]
                         = [task[t] EXCEPT !.m_wasCanceled = NotCanceled]
                   /\ \A r \in Runs : runs'[r].pc = runs[r].pc
          /\ (out'.op \in {"startRender", "paint"} /\ out'.ret = 1)
                => /\ task'[t].m_wasCanceled = NotCanceled
                   /\ isRunning(task'[t])
          /\ \A r \in Runs :
                (At(r, "cp1") /\ runs[r].tile = t /\ runs'[r].pc = "clear")
                   => runs[r].marks # NoMarks]_vars

\* a forced cancel was made on the task after its run had finished
C27_Witness ==
    /\ out.op = "refresh" /\ ~isRunning(task[1]) /\ nruns > 0
    /\ task[1].m_wasCanceled = CanceledForcibly
    /\ \A r \in Runs : ~InFlight(r)

\* how often the event occurs among those a run has emitted
RECURSIVE Count(_, _)
Count(seq, sig) ==
    IF seq = <<>> THEN 0
    ELSE (IF Head(seq) = sig THEN 1 ELSE 0) + Count(Tail(seq), sig)

\* C28: a run never emits finished twice; when it clears the running flag it
\* has emitted finished exactly once, as its last event; and under fair
\* scheduling every started run gets there and the task's running flag becomes
\* false, whether the run went through or stopped at a checkpoint.
C28_RunTerminates ==
    /\ [][\A r \in Runs :
             /\ Count(runs'[r].emitted, "finished") <= 1
             /\ (At(r, "clear") /\ runs'[r].pc = "wake")
                   => /\ Count(runs[r].emitted, "finished") = 1
                      /\ runs[r].emitted[Len(runs[r].emitted)] = "finished"
                      /\ isRunning(task[runs[r].tile])
                      /\ ~isRunning(task'[runs[r].tile])]_vars
    /\ \A r \in Runs : (runs[r].pc = "cp1") ~> (runs[r].pc \in {"wake", "done"})
    /\ \A t \in Tiles : isRunning(task[t]) ~> ~isRunning(task[t])

\* a run that was canceled in flight has cleared the running flag
C28_Witness ==
    \E r \in Runs : /\ runs[r].pc = "wake" /\ ~runs[r].freed
                    /\ runs[r].marks # NoMarks
                    /\ ~isRunning(task[runs[r].tile])

\* the cancellation state counts as canceled for a run: any cancellation for
\* an on-demand run, only a forced one for a prefetch
CountsAsCanceled(tk) ==
    IF tk.m_prefetch THEN tk.m_wasCanceled = CanceledForcibly
    ELSE tk.m_wasCanceled \in {CanceledNormally, CanceledForcibly}

\* the order of the places of run()
Place(pc) ==
    CASE pc = "none" -> 0 [] pc = "cp1" -> 1 [] pc = "render" -> 2 [] pc = "cp3" -> 3
      [] pc = "clear" -> 4 [] pc = "wake" -> 5 [] pc = "done" -> 6

\* C29: a run that finds its cancellation state counting as canceled at the
\* first checkpoint goes to finish() without calling the rasterizer; one that
\* finds it so at the checkpoint after the rasterizer emits no imageReady; a
\* run calls the rasterizer only from the first checkpoint and never goes back,
\* so at most once.
C29_Checkpoints ==
    [][\A r \in Runs :
          LET tk == task[runs[r].tile]
          IN /\ (At(r, "cp1") /\ runs'[r].pc # "cp1")
                   => IF CountsAsCanceled(tk)
                      THEN runs'[r].pc = "clear" /\ runs'[r].emitted = <<"finished">>
                      ELSE runs'[r].pc = "render" /\ runs'[r].emitted = <<>>
             /\ (At(r, "render") /\ runs'[r].pc # "render")
                   => IF CountsAsCanceled(tk)
                      THEN runs'[r].pc = "clear" /\ runs'[r].emitted = <<"finished">>
                      ELSE runs'[r].pc = "cp3" /\ runs'[r].emitted = <<"imageReady">>
             /\ (runs'[r].pc = "render" /\ runs[r].pc # "render") => runs[r].pc = "cp1"
             /\ Place(runs'[r].pc) >= Place(runs[r].pc)]_vars

\* an on-demand run that was canceled normally has stopped at a checkpoint
\* and has emitted no imageReady
C29_Witness ==
    \E r \in Runs : /\ runs[r].pc = "clear" /\ runs[r].emitted = <<"finished">>
                    /\ ~runs[r].freed /\ runs[r].tile = 1
                    /\ ~task[1].m_prefetch /\ task[1].m_wasCanceled = CanceledNormally

\* C31: for every non-null image the box that trimMargins returns lies inside
\* the unit square: left >= 0, top >= 0, left + width <= 1, top + height <= 1.
C31_InsideUnitSquare ==
    (out.op = "trimMargins" /\ out.image.width > 0)
        => /\ out.box.x >= 0 /\ out.box.y >= 0
           /\ out.box.x + out.box.w <= 100
           /\ out.box.y + out.box.h <= 100

\* C32: for every non-null image with a non-paper pixel the returned box holds
\* every column and row with a non-paper pixel: left <= L / W, top <= T / H,
\* left + width >= (R + 1) / W and top + height >= (B + 1) / H.
C32_ContentInsideBox ==
    (out.op = "trimMargins" /\ HasInk(out.image))
        => LET W == out.image.width
               H == out.image.height
               L == First(InkColumns(out.image))
               R == Last(InkColumns(out.image))
               T == First(InkRows(out.image))
               B == Last(InkRows(out.image))
           IN /\ out.box.x * W <= 100 * L
              /\ out.box.y * H <= 100 * T
              /\ (out.box.x + out.box.w) * W >= 100 * (R + 1)
              /\ (out.box.y + out.box.h) * H >= 100 * (B + 1)

\* the parts of C32 that hold: the box begins at or before the first column
\* and the first row with a non-paper pixel
BoxBeginsBeforeContent ==
    (out.op = "trimMargins" /\ HasInk(out.image))
        => /\ out.box.x * out.image.width <= 100 * First(InkColumns(out.image))
           /\ out.box.y * out.image.height <= 100 * First(InkRows(out.image))

\* C33: when the tile's finished handler runs, the run that emitted the event
\* has cleared m_isRunning, and the paint that the handler requests, finding
\* no pixmap, is not turned down by startRender on account of that run.
C33_FinishedAfterFlagCleared ==
    [][\A t \in Tiles :
          /\ (out'.op = "finished" /\ Head(queue).tile = t)
                => ~InFlight(Head(queue).run)
          /\ (/\ out.op = "finished" /\ out'.op = "paint" /\ tile[t].alive
              /\ ~CacheContains(s_cache, Key(t)) /\ isNull(tile[t].m_pixmap)
              /\ ~tile[t].m_pixmapError
              /\ \A r \in Runs : runs[r].tile = t => runs[r].pc \notin {"cp1", "render", "cp3"})
                => out'.ret = 1]_vars

\* C34: the image of an on-demand run on which cancel was called, normally or
\* forcibly, after its start is never stored as the tile's pixmap, also when a
\* new run was started before the image-ready event is handled.
C34_CanceledRunNotStored ==
    [][(/\ out'.op = "imageReady" /\ ~out'.prefetch
        /\ (out'.marks.soft \/ out'.marks.force # "none"))
          => /\ ~out'.stored
             /\ \A t \in Tiles : tile'[t].m_pixmap = tile[t].m_pixmap]_vars

\* the part of C34 that holds: while the task's flag still holds the
\* cancellation, the on-demand image is not stored
CanceledFlagNotStored ==
    [][\A t \in Tiles :
          (/\ out'.op = "imageReady" /\ ~out'.prefetch /\ Head(queue).tile = t
           /\ wasCanceled(task[t]))
             => ~out'.stored /\ tile'[t].m_pixmap = tile[t].m_pixmap]_vars

\* C35: a null image-ready event of a run on which refresh or cancelRender
\* called cancel after its start does not set the error flag: after refresh
\* the flag stays false until a run started later delivers a null image.
C35_CanceledNullNoError ==
    [][\A t \in Tiles :
          (/\ out'.op = "imageReady" /\ out'.image = "null" /\ Head(queue).tile = t
           /\ (out'.marks.soft \/ out'.marks.force # "none"))
             => tile'[t].m_pixmapError = tile[t].m_pixmapError]_vars

\* C36: an image-ready event whose image is discarded because of a
\* cancellation (it is neither stored in the tile nor inserted into the cache)
\* leaves the tile's obsolete buffer as it was.
C36_DiscardKeepsObsolete ==
    [][\A t \in Tiles :
          (/\ out'.op = "imageReady" /\ out'.image = "ok" /\ Head(queue).tile = t
           /\ ~out'.stale /\ ~out'.inserted /\ ~out'.stored)
             => tile'[t].m_obsoletePixmap = tile[t].m_obsoletePixmap]_vars

\* C37: in every state the cache entry found under a live tile's current
\* fingerprint holds an image rasterized with exactly the page's current
\* parameters and the tile's rectangle, and a non-empty directly held buffer
\* was rasterized with the tile's current parameters and rectangle.
C37_CacheConsistent ==
    \A t \in Tiles :
        tile[t].alive =>
            /\ CacheContains(s_cache, Key(t)) =>
                  /\ CacheObject(s_cache, Key(t)).param = renderParam
                  /\ CacheObject(s_cache, Key(t)).rect = tile[t].m_rect
            /\ ~isNull(tile[t].m_pixmap) =>
                  /\ tile[t].m_pixmap.param = renderParam
                  /\ tile[t].m_pixmap.rect = tile[t].m_rect

\* what does hold: every entry sits under the key text of the parameters and
\* rectangle its image was rasterized with, and the directly held buffer is of
\* the current parameters and rectangle
EntriesUnderOwnKey ==
    /\ \A i \in 1..Len(s_cache.nodes) :
          s_cache.nodes[i].key = pixmapKey(s_cache.nodes[i].t.param, s_cache.nodes[i].t.rect)
    /\ \A t \in Tiles :
          (tile[t].alive /\ ~isNull(tile[t].m_pixmap)) =>
              /\ tile[t].m_pixmap.param = renderParam
              /\ tile[t].m_pixmap.rect = tile[t].m_rect

\* C38: the delivery of an image-ready event whose parameters or rectangle
\* differ from the tile's current ones changes nothing of the tile (current
\* buffer, obsolete buffer, error flag, rectangle) and nothing of the cache,
\* its order of entries included.
C38_StaleEventFrame ==
    [][\A t \in Tiles :
          (/\ out'.op = "imageReady" /\ Head(queue).tile = t
           /\ \/ Head(queue).param # renderParam
              \/ Head(queue).rect # tile[t].m_rect)
             => /\ tile'[t] = tile[t]
                /\ s_cache' = s_cache
                /\ renderParam' = renderParam]_vars

\* a stale event was delivered to a tile that shows an obsolete buffer
C38_Witness ==
    /\ out.op = "imageReady" /\ out.stale
    /\ \E t \in Tiles : tile[t].alive /\ ~isNull(tile[t].m_obsoletePixmap)

\* the places of run() at which reads of m_renderParam, m_rect or m_prefetch
\* are still to come: the first read is the test at the first checkpoint, the
\* last one the emission of cropBoxReady
ReadsRequest(r) == ~runs[r].freed /\ runs[r].pc \in {"cp1", "render", "cp3"}

\* C39: start() is not called on a task, and the request fields of a task
\* (parameters, rectangle, prefetch flag) are not written, while a worker
\* executing run() on that task still has reads of them to come.
C39_NoStartDuringRun ==
    [][\A t \in Tiles :
          (\/ nruns' # nruns /\ runs'[nruns'].tile = t
           \/ task'[t].m_renderParam # task[t].m_renderParam
           \/ task'[t].m_rect # task[t].m_rect
           \/ task'[t].m_prefetch # task[t].m_prefetch)
             => \A r \in Runs : runs[r].tile = t => ~ReadsRequest(r)]_vars

\* a task was started again while the worker of its previous run was still
\* inside finish(), before wakeAll
C39_Witness ==
    /\ nruns = 2 /\ runs[1].tile = runs[2].tile
    /\ runs[1].pc = "wake" /\ ~runs[1].freed
    /\ runs[2].pc = "cp1"

\* C40: a run on which cancel(true) was called while isRunning() was true,
\* the remaining steps of start() included, stops at its next checkpoint: the
\* checkpoint calls finish() and emits neither imageReady nor cropBoxReady.
C40_ForcedCancelObserved ==
    [][\A r \in Runs :
          (/\ runs[r].marks.force = "run" /\ ~runs[r].freed
           /\ runs[r].pc \in {"cp1", "render", "cp3"}
           /\ runs'[r].pc # runs[r].pc)
             => /\ runs'[r].pc = "clear"
                /\ runs'[r].emitted = Append(runs[r].emitted, "finished")]_vars

\* what does hold: while a task is running, no step but a cancel changes its
\* cancellation flag once start() has returned
FlagKeptAfterStart ==
    [][\A t \in Tiles :
          (/\ task[t].m_isRunning /\ task'[t].m_isRunning
           /\ task'[t].m_wasCanceled # task[t].m_wasCanceled)
             => (out'.op = "cancel" \/ mainpc = <<"start", t>>)]_vars

====
